---- MODULE Spec2Model ----
(***************************************************************************)
(* Stroopy (src/stroopy.py): a Streamlit colour-word Stroop test.          *)
(*                                                                         *)
(* The program is a script that Streamlit re-executes from top to bottom   *)
(* on every user event; st.session_state is the state that survives from   *)
(* one execution to the next.  One action of this model is one event       *)
(* together with the script execution it triggers, including the           *)
(* executions chained to it by st.rerun().                                 *)
(*                                                                         *)
(* Units: times are in tenths of a second (MAX_RT = 3.0 s is 30,           *)
(* MIN_VALID_RT = 0.10 s is 1).  The clock `now` is read relative to an    *)
(* epoch that moves to the present whenever the trial timer is cleared:    *)
(* the program uses time.time() only through now - start_time.             *)
(* Not modelled: using_keyboard (selects an information banner only),      *)
(* current_onset and the two timestamp columns of a record, the rendering. *)
(***************************************************************************)
EXTENDS Integers, Sequences, FiniteSets, TLC

VARIABLES
    stage,            \* st.session_state.stage
    practice_trials,  \* st.session_state.practice_trials
    test_trials,      \* st.session_state.test_trials
    current_idx,      \* st.session_state.current_idx
    results,          \* st.session_state.results
    start_time,       \* st.session_state.start_time
    now,              \* time.time()
    page,             \* the widgets the last script execution left on screen
    summary,          \* the metrics the finished stage displays, <<>> when not displayed
    js_eval,          \* whether `from streamlit_js_eval import ...` succeeds
    stroop_setup,     \* window._stroop_setup (keydown listener attached)
    stroop_key,       \* window._stroop_key
    block_call        \* a call of make_block under examination (BlockSpec only)

vars == <<stage, practice_trials, test_trials, current_idx, results, start_time,
          now, page, summary, js_eval, stroop_setup, stroop_key, block_call>>

-----------------------------------------------------------------------------
(* Configuration *)

RED    == <<"R", "E", "D">>
GREEN  == <<"G", "R", "E", "E", "N">>
BLUE   == <<"B", "L", "U", "E">>
YELLOW == <<"Y", "E", "L", "L", "O", "W">>
COLOR_NAMES == <<RED, GREEN, BLUE, YELLOW>>

\* The source runs 20 test trials after 8 practice trials; the model runs fewer.
TRIALS_TOTAL == 2
PRACTICE_TRIALS == 1
MAX_RT == 30
MIN_VALID_RT == 1
\* CONGRUENT_PROPORTION = 0.5, as the fraction CONGRUENT_NUM / CONGRUENT_DEN
CONGRUENT_NUM == 1
CONGRUENT_DEN == 2

\* Python's None, for a time and for a key
NoneTime == -1
NoKey == "None"

\* random.choice in a session returns one of the first MaxDraw elements
MaxDraw == 1
\* make_block is examined for n in 0..MaxN and cong_prop in {0/PDen .. PDen/PDen}
MaxN == 2
PDen == 4

\* The readings of the clock, as time since the stimulus was shown:
\* below MIN_VALID_RT, at it, at MAX_RT, beyond it.
ClockSamples == {0, MIN_VALID_RT, MAX_RT, MAX_RT + 1}

-----------------------------------------------------------------------------
(* Trial generation *)

\* random.choice(seq): any element (any of the first `draw`)
random_choice(seq, draw) == { seq[i] : i \in { j \in 1..Len(seq) : j <= draw } }

\* make_trial with the ink of an incongruent trial drawn from the whole palette
make_trial_any_ink(congruent, draw) ==
    UNION { { [word |-> w, ink |-> i, congruent |-> congruent] :
                i \in IF congruent THEN {w} ELSE random_choice(COLOR_NAMES, draw) }
            : w \in random_choice(COLOR_NAMES, draw) }

\* make_trial(congruent): the set of trials it can return
make_trial(congruent, draw) ==
    UNION { { [word |-> w, ink |-> i, congruent |-> congruent] :
                i \in IF congruent
                      THEN {w}
                      ELSE random_choice(SelectSeq(COLOR_NAMES, LAMBDA c : c # w), draw) }
            : w \in random_choice(COLOR_NAMES, draw) }

\* Python 3 round() of the non-negative rational a / b: to nearest, ties to even
round(a, b) ==
    LET q == a \div b
        r == a % b
    IN  IF 2 * r < b THEN q
        ELSE IF 2 * r > b THEN q + 1
        ELSE IF q % 2 = 0 THEN q ELSE q + 1

\* random.shuffle(seq): any permutation
shuffle(seq) ==
    { [i \in 1..Len(seq) |-> seq[p[i]]] : p \in Permutations(1..Len(seq)) }

\* make_block with as many incongruent trials as congruent ones
make_block_half(n, num, den, draw) ==
    LET n_cong == round(n * num, den)
    IN  UNION { shuffle(c \o i) :
                  c \in [1..n_cong -> make_trial(TRUE, draw)],
                  i \in [1..n_cong -> make_trial(FALSE, draw)] }

\* make_block(n, cong_prop = num / den): the set of lists it can return
make_block(n, num, den, draw) ==
    LET n_cong == round(n * num, den)
        n_incong == n - n_cong
    IN  UNION { shuffle(c \o i) :
                  c \in [1..n_cong -> make_trial(TRUE, draw)],
                  i \in [1..n_incong -> make_trial(FALSE, draw)] }

-----------------------------------------------------------------------------
(* Recording *)

\* str.upper() on a key
upper(k) ==
    CASE k = "r" -> "R" [] k = "g" -> "G" [] k = "b" -> "B" [] k = "y" -> "Y"
      [] OTHER -> k

\* truth value of a key (`if response_key`)
Truthy(k) == k # NoKey /\ k # ""

\* record_response scoring the response against the word instead of the ink
record_response_word(res, trial, response_key, rt, practice) ==
    LET correct == response_key # NoKey /\ upper(response_key) = trial.word[1]
    IN  Append(res,
          [ trial_index  |-> Len(res) + 1,
            word_text    |-> trial.word,
            ink_color    |-> trial.ink,
            congruent    |-> trial.congruent,
            response_key |-> IF Truthy(response_key) THEN upper(response_key) ELSE NoKey,
            correct      |-> IF Truthy(response_key) THEN (IF correct THEN 1 ELSE 0) ELSE 0,
            rt_s         |-> IF Truthy(response_key) THEN rt ELSE NoneTime,
            practice     |-> practice ])

\* record_response numbering the records from 0
record_response_from_zero(res, trial, response_key, rt, practice) ==
    LET correct == response_key # NoKey /\ upper(response_key) = trial.ink[1]
    IN  Append(res,
          [ trial_index  |-> Len(res),
            word_text    |-> trial.word,
            ink_color    |-> trial.ink,
            congruent    |-> trial.congruent,
            response_key |-> IF Truthy(response_key) THEN upper(response_key) ELSE NoKey,
            correct      |-> IF Truthy(response_key) THEN (IF correct THEN 1 ELSE 0) ELSE 0,
            rt_s         |-> IF Truthy(response_key) THEN rt ELSE NoneTime,
            practice     |-> practice ])

record_response(res, trial, response_key, rt, practice) ==
    LET correct == response_key # NoKey /\ upper(response_key) = trial.ink[1]
    IN  Append(res,
          [ trial_index  |-> Len(res) + 1,
            word_text    |-> trial.word,
            ink_color    |-> trial.ink,
            congruent    |-> trial.congruent,
            response_key |-> IF Truthy(response_key) THEN upper(response_key) ELSE NoKey,
            correct      |-> IF Truthy(response_key) THEN (IF correct THEN 1 ELSE 0) ELSE 0,
            rt_s         |-> IF Truthy(response_key) THEN rt ELSE NoneTime,
            practice     |-> practice ])

-----------------------------------------------------------------------------
(* Results *)

\* A displayed number is the fraction num / den; NaN and None are kinds of their own.
Num(n, d) == [kind |-> "num", num |-> n, den |-> d]
NaN  == [kind |-> "nan", num |-> 0, den |-> 0]
None == [kind |-> "None", num |-> 0, den |-> 0]

RECURSIVE SumSeq(_)
SumSeq(xs) == IF xs = <<>> THEN 0 ELSE Head(xs) + SumSeq(Tail(xs))

\* Series.mean() giving 0 where there is no value
mean_zero(xs) ==
    LET v == SelectSeq(xs, LAMBDA x : x # NoneTime)
    IN  IF Len(v) = 0 THEN Num(0, 1) ELSE Num(SumSeq(v), Len(v))

\* Series.mean(): NaN entries are skipped, the mean of none is NaN
mean(xs) ==
    LET v == SelectSeq(xs, LAMBDA x : x # NoneTime)
    IN  IF Len(v) = 0 THEN NaN ELSE Num(SumSeq(v), Len(v))

\* rt_s_clean without the MIN_VALID_RT threshold
rt_s_clean_all(r) == r.rt_s

\* the rt_s_clean column: rt_s where it is not null and >= MIN_VALID_RT, NaN elsewhere
rt_s_clean(r) ==
    IF r.rt_s # NoneTime /\ r.rt_s >= MIN_VALID_RT THEN r.rt_s ELSE NoneTime

\* test_df without the filter on the practice column
test_df_all(res) == res

test_df(res) == SelectSeq(res, LAMBDA r : r.practice = FALSE)

mean_rt(df) == mean([i \in 1..Len(df) |-> rt_s_clean(df[i])])

accuracy(df) ==
    LET m == mean([i \in 1..Len(df) |-> df[i].correct])
    IN  [m EXCEPT !.num = 100 * m.num]

\* cong_rt - incong_rt
minus_swapped(a, b) ==
    IF a.kind = "nan" \/ b.kind = "nan" THEN NaN
    ELSE Num(b.num * a.den - a.num * b.den, a.den * b.den)

\* incong_rt - cong_rt on floats
minus(a, b) ==
    IF a.kind = "nan" \/ b.kind = "nan" THEN NaN
    ELSE Num(a.num * b.den - b.num * a.den, a.den * b.den)

\* f"{overall_rt:.3f}" if overall_rt else "N/A": None and 0.0 are false, NaN is true
NotAvailable == [kind |-> "N/A", num |-> 0, den |-> 0]
display(m) ==
    IF m.kind = "None" \/ (m.kind = "num" /\ m.num = 0) THEN NotAvailable ELSE m

\* the rows shown and exported: the test records with their rt_s_clean column
export(res) ==
    LET df == test_df(res)
    IN  [i \in 1..Len(df) |-> [row |-> df[i], rt_s_clean |-> rt_s_clean(df[i])]]

\* the metrics of the finished stage
summarize(res) ==
    LET df        == test_df(res)
        cong_df   == SelectSeq(df, LAMBDA r : r.congruent = TRUE)
        incong_df == SelectSeq(df, LAMBDA r : r.congruent = FALSE)
        cong_rt   == IF cong_df # <<>> THEN mean_rt(cong_df) ELSE None
        incong_rt == IF incong_df # <<>> THEN mean_rt(incong_df) ELSE None
    IN  [ empty         |-> (res = <<>>),
          overall_acc   |-> IF df # <<>> THEN accuracy(df) ELSE Num(0, 1),
          overall_rt    |-> IF df # <<>> THEN mean_rt(df) ELSE None,
          cong_rt       |-> cong_rt,
          incong_rt     |-> incong_rt,
          cong_acc      |-> IF cong_df # <<>> THEN accuracy(cong_df) ELSE None,
          incong_acc    |-> IF incong_df # <<>> THEN accuracy(incong_df) ELSE None,
          stroop_effect |-> IF cong_rt.kind # "None" /\ incong_rt.kind # "None"
                            THEN minus(incong_rt, cong_rt) ELSE None,
          overall_rt_text |-> display(IF df # <<>> THEN mean_rt(df) ELSE None),
          rows          |-> export(res) ]

-----------------------------------------------------------------------------
(* The script *)

Session(stg, idx, res, st) ==
    [stage |-> stg, current_idx |-> idx, results |-> res, start_time |-> st]

\* Render leaving the test one trial early
Render_early(s, t) ==
    LET timer == IF s.start_time = NoneTime THEN t ELSE s.start_time
        out(stg, st, pg, listener) ==
            [stage |-> stg, current_idx |-> s.current_idx, results |-> s.results,
             start_time |-> st, page |-> pg, listener |-> listener]
    IN  CASE s.stage = "instructions" ->
               out("instructions", s.start_time, "instructions", FALSE)
          [] s.stage = "practice" ->
               IF s.current_idx >= Len(practice_trials)
               THEN out("practice", s.start_time, "practice_done", FALSE)
               ELSE out("practice", timer, "practice", FALSE)
          [] s.stage = "test" ->
               IF s.current_idx >= Len(test_trials) - 1
               THEN out("finished", s.start_time, "results", FALSE)
               ELSE out("test", timer, "test", js_eval)
          [] s.stage = "finished" ->
               out("finished", s.start_time, "results", FALSE)

\* One execution of the script in which no widget fires, at clock reading t,
\* followed through its st.rerun(): the session state and the page it leaves.
Render(s, t) ==
    LET timer == IF s.start_time = NoneTime THEN t ELSE s.start_time
        out(stg, st, pg, listener) ==
            [stage |-> stg, current_idx |-> s.current_idx, results |-> s.results,
             start_time |-> st, page |-> pg, listener |-> listener]
    IN  CASE s.stage = "instructions" ->
               out("instructions", s.start_time, "instructions", FALSE)
          [] s.stage = "practice" ->
               IF s.current_idx >= Len(practice_trials)
               THEN out("practice", s.start_time, "practice_done", FALSE)
               ELSE out("practice", timer, "practice", FALSE)
          [] s.stage = "test" ->
               IF s.current_idx >= Len(test_trials)
               THEN out("finished", s.start_time, "results", FALSE)
               ELSE out("test", timer, "test", js_eval)
          [] s.stage = "finished" ->
               out("finished", s.start_time, "results", FALSE)

\* The state an execution leaves behind
Commit(r) ==
    /\ stage' = r.stage
    /\ current_idx' = r.current_idx
    /\ results' = r.results
    /\ start_time' = r.start_time
    /\ page' = r.page
    /\ summary' = IF r.page = "results" THEN <<summarize(r.results)>> ELSE <<>>
    /\ stroop_setup' = (stroop_setup \/ r.listener)

Current == Session(stage, current_idx, results, start_time)

\* "Start Practice" pressed on the instructions page
StartPractice ==
    /\ page = "instructions"
    /\ stage = "instructions"
    /\ Commit(Session("practice", 0, <<>>, NoneTime)
                @@ [page |-> "instructions", listener |-> FALSE])
    /\ now' = 0
    /\ UNCHANGED <<practice_trials, test_trials, js_eval, stroop_key, block_call>>

\* A rerun whose session state init makes the two blocks again
Rerun_regen ==
    /\ Commit(Render(Current, now))
    /\ practice_trials' \in make_block(PRACTICE_TRIALS, CONGRUENT_NUM, CONGRUENT_DEN, MaxDraw)
    /\ test_trials' \in make_block(TRIALS_TOTAL, CONGRUENT_NUM, CONGRUENT_DEN, MaxDraw)
    /\ UNCHANGED <<now, js_eval, stroop_key, block_call>>

\* An event that fires no widget of the execution it triggers
Rerun ==
    /\ Commit(Render(Current, now))
    /\ UNCHANGED <<now, practice_trials, test_trials, js_eval, stroop_key, block_call>>

\* A practice button that leaves start_time as it is
PracticeClick_keep_timer(color) ==
    /\ page = "practice"
    /\ LET trial == practice_trials[current_idx + 1]
           rt0   == now - start_time
           rt    == IF rt0 > MAX_RT THEN NoneTime ELSE rt0
           res   == record_response(results, trial, color[1], rt, TRUE)
       IN  Commit(Render(Session(stage, current_idx + 1, res, start_time), now))
    /\ UNCHANGED <<now, practice_trials, test_trials, js_eval, stroop_key, block_call>>

\* A colour button pressed during practice
PracticeClick(color) ==
    /\ page = "practice"
    /\ LET trial == practice_trials[current_idx + 1]
           rt0   == now - start_time
           rt    == IF rt0 > MAX_RT THEN NoneTime ELSE rt0
           res   == record_response(results, trial, color[1], rt, TRUE)
       IN  Commit(Render(Session(stage, current_idx + 1, res, NoneTime), 0))
    /\ now' = 0
    /\ UNCHANGED <<practice_trials, test_trials, js_eval, stroop_key, block_call>>

\* "Proceed to Test" without the reset of current_idx
ProceedToTest_keep_idx ==
    /\ page = "practice_done"
    /\ stage = "practice"
    /\ Commit(Session("test", current_idx, results, NoneTime)
                @@ [page |-> "practice_done", listener |-> FALSE])
    /\ now' = 0
    /\ UNCHANGED <<practice_trials, test_trials, js_eval, stroop_key, block_call>>

\* "Proceed to Test" emptying the results, as "Start Practice" does
ProceedToTest_clear ==
    /\ page = "practice_done"
    /\ stage = "practice"
    /\ Commit(Session("test", 0, <<>>, NoneTime)
                @@ [page |-> "practice_done", listener |-> FALSE])
    /\ now' = 0
    /\ UNCHANGED <<practice_trials, test_trials, js_eval, stroop_key, block_call>>

\* "Proceed to Test" pressed after the practice
ProceedToTest ==
    /\ page = "practice_done"
    /\ stage = "practice"
    /\ Commit(Session("test", 0, results, NoneTime)
                @@ [page |-> "practice_done", listener |-> FALSE])
    /\ now' = 0
    /\ UNCHANGED <<practice_trials, test_trials, js_eval, stroop_key, block_call>>

\* A colour button of the test stage that drops a reaction time below MIN_VALID_RT
TestClick_drop(color) ==
    /\ page = "test"
    /\ LET trial   == test_trials[current_idx + 1]
           clicked == color[1]
           rt      == now - start_time
           rt_val  == IF rt < MIN_VALID_RT THEN NoneTime
                      ELSE IF rt <= MAX_RT THEN rt ELSE NoneTime
           res     == record_response(results, trial, clicked, rt_val, FALSE)
       IN  Commit(Render(Session(stage, current_idx + 1, res, NoneTime), 0))
    /\ now' = 0
    /\ UNCHANGED <<practice_trials, test_trials, js_eval, stroop_key, block_call>>

\* A colour button pressed during the test (time.sleep(ISI) passes before the rerun)
TestClick(color) ==
    /\ page = "test"
    /\ LET trial   == test_trials[current_idx + 1]
           clicked == color[1]
           rt      == now - start_time
           rt_val  == IF rt < MIN_VALID_RT THEN rt
                      ELSE IF rt <= MAX_RT THEN rt ELSE NoneTime
           res     == record_response(results, trial, clicked, rt_val, FALSE)
       IN  Commit(Render(Session(stage, current_idx + 1, res, NoneTime), 0))
    /\ now' = 0
    /\ UNCHANGED <<practice_trials, test_trials, js_eval, stroop_key, block_call>>

\* keydown of R, G, B or Y while a test stimulus is shown
KeyDown(k) ==
    /\ page = "test"
    /\ stroop_setup
    /\ stroop_key = NoKey
    /\ stroop_key' = k
    /\ UNCHANGED <<stage, practice_trials, test_trials, current_idx, results, start_time,
                   now, page, summary, js_eval, stroop_setup, block_call>>

\* The listener component returns the stored key to the script.  The request
\* to clear the stored key is issued right before st.rerun(): it may or may
\* not be carried out by the browser.
KeyboardResponse ==
    /\ page = "test"
    /\ js_eval
    /\ stroop_key # NoKey
    /\ LET trial == test_trials[current_idx + 1]
           key   == stroop_key
           rt    == now - start_time
           res   == record_response(results, trial, key,
                                    IF rt <= MAX_RT THEN rt ELSE NoneTime, FALSE)
       IN  Commit(Render(Session(stage, current_idx + 1, res, NoneTime), 0))
    /\ now' = 0
    /\ stroop_key' \in {NoKey, stroop_key}
    /\ UNCHANGED <<practice_trials, test_trials, js_eval, block_call>>

\* Session state init, on a session_state without keys
SessionInit(stg, practice, test, idx, res, st) ==
    /\ stg = "instructions"
    /\ practice \in make_block(PRACTICE_TRIALS, CONGRUENT_NUM, CONGRUENT_DEN, MaxDraw)
    /\ test \in make_block(TRIALS_TOTAL, CONGRUENT_NUM, CONGRUENT_DEN, MaxDraw)
    /\ idx = 0
    /\ res = <<>>
    /\ st = NoneTime

\* Restart that leaves the results key in place
Restart_keep ==
    /\ page = "results"
    /\ SessionInit(stage', practice_trials', test_trials', current_idx', <<>>, start_time')
    /\ results' = results
    /\ page' = "instructions"
    /\ summary' = <<>>
    /\ now' = 0
    /\ UNCHANGED <<js_eval, stroop_setup, stroop_key, block_call>>

\* "Restart entire session" pressed on the results page
Restart ==
    /\ page = "results"
    /\ SessionInit(stage', practice_trials', test_trials', current_idx', results', start_time')
    /\ page' = "instructions"
    /\ summary' = <<>>
    /\ now' = 0
    /\ UNCHANGED <<js_eval, stroop_setup, stroop_key, block_call>>

\* Time passes while a stimulus is timed
Tick ==
    /\ start_time # NoneTime
    /\ \E t \in ClockSamples :
         /\ t > now - start_time
         /\ now' = start_time + t
    /\ UNCHANGED <<stage, practice_trials, test_trials, current_idx, results, start_time,
                   page, summary, js_eval, stroop_setup, stroop_key, block_call>>

NoCall == [n |-> 0, num |-> 0, done |-> FALSE, out |-> <<>>]

Init ==
    /\ SessionInit(stage, practice_trials, test_trials, current_idx, results, start_time)
    /\ now = 0
    /\ page = "instructions"
    /\ summary = <<>>
    /\ js_eval \in BOOLEAN
    /\ stroop_setup = FALSE
    /\ stroop_key = NoKey
    /\ block_call = NoCall

Next ==
    \/ StartPractice
    \/ Rerun
    \/ \E color \in { COLOR_NAMES[i] : i \in 1..Len(COLOR_NAMES) } : PracticeClick(color)
    \/ ProceedToTest
    \/ \E color \in { COLOR_NAMES[i] : i \in 1..Len(COLOR_NAMES) } : TestClick(color)
    \/ \E k \in {"R", "G", "B", "Y"} : KeyDown(k)
    \/ KeyboardResponse
    \/ Restart
    \/ Tick

Spec == Init /\ [][Next]_vars

\* The script makes no step of its own: time passes, and events re-execute it.
FairSpec == Spec /\ WF_vars(Tick) /\ WF_vars(Rerun)

-----------------------------------------------------------------------------
(* make_block as a function of its arguments *)

BlockInit ==
    /\ stage = "instructions"
    /\ practice_trials = <<>>
    /\ test_trials = <<>>
    /\ current_idx = 0
    /\ results = <<>>
    /\ start_time = NoneTime
    /\ now = 0
    /\ page = "instructions"
    /\ summary = <<>>
    /\ js_eval = FALSE
    /\ stroop_setup = FALSE
    /\ stroop_key = NoKey
    /\ block_call \in [n : 0..MaxN, num : 0..PDen, done : {FALSE}, out : {<<>>}]

\* make_block(n, num / PDen) is called and returns
MakeBlockCall ==
    /\ ~block_call.done
    /\ \E out \in make_block(block_call.n, block_call.num, PDen, Len(COLOR_NAMES)) :
         block_call' = [block_call EXCEPT !.done = TRUE, !.out = out]
    /\ UNCHANGED <<stage, practice_trials, test_trials, current_idx, results, start_time,
                   now, page, summary, js_eval, stroop_setup, stroop_key>>

BlockNext == MakeBlockCall

BlockSpec == BlockInit /\ [][BlockNext]_vars

-----------------------------------------------------------------------------
(* Properties *)

Palette == { COLOR_NAMES[i] : i \in 1..Len(COLOR_NAMES) }
Elapsed == now - start_time
TestRecords == SelectSeq(results, LAMBDA r : ~r.practice)
LastRecord == results'[Len(results')]
Appended == Len(results') = Len(results) + 1

\* C1: in the test stage the session advances by itself: whatever trial is
\* shown, eventually the index is larger or the stage is finished, with no
\* input from the user.
C1_ForwardProgress ==
    \A i \in 0..(TRIALS_TOTAL - 1) :
        (stage = "test" /\ page = "test" /\ current_idx = i)
            ~> (current_idx > i \/ stage = "finished")

\* C2: a response that arrives more than MAX_RT after the stimulus is
\* recorded as a timeout: no chosen colour, no reaction time, incorrect.
C2_LateIsTimeout ==
    [][ (start_time # NoneTime /\ Elapsed > MAX_RT /\ Appended)
            => /\ LastRecord.response_key = NoKey
               /\ LastRecord.rt_s = NoneTime
               /\ LastRecord.correct = 0 ]_vars

AllTrials == make_trial(TRUE, Len(COLOR_NAMES)) \cup make_trial(FALSE, Len(COLOR_NAMES))
PracticeCount == Cardinality({ i \in 1..Len(results) : results[i].practice })
\* the trial the i-th record answers: practice records come first
TrialOf(i) ==
    IF results[i].practice THEN practice_trials[i] ELSE test_trials[i - PracticeCount]
\* the colour a key stands for
ChosenBy(key) == { c \in Palette : c[1] = key }

C4_OneRecordPerTrial ==
    /\ stage = "test" => Len(TestRecords) = current_idx
    /\ \A k \in 1..Len(TestRecords) :
         /\ k <= Len(test_trials)
         /\ TestRecords[k].word_text = test_trials[k].word
         /\ TestRecords[k].ink_color = test_trials[k].ink
         /\ TestRecords[k].congruent = test_trials[k].congruent
    /\ stage = "finished" => Len(TestRecords) = TRIALS_TOTAL

C4_Witness ==
    /\ stage = "finished"
    /\ Len(TestRecords) = TRIALS_TOTAL
    /\ \E k \in 1..Len(TestRecords) : TestRecords[k].rt_s = NoneTime

RestartStep == stage = "finished" /\ stage' = "instructions"

\* C5: apart from the restart, a step leaves the records alone or appends one
\* record to them.
C5_AppendOnly ==
    [][ \/ RestartStep
        \/ results' = results
        \/ Appended /\ SubSeq(results', 1, Len(results)) = results ]_vars

C5_Witness ==
    /\ stage = "test"
    /\ page = "practice_done"
    /\ Len(results) = PRACTICE_TRIALS
    /\ PRACTICE_TRIALS > 0

\* C6: the stage moves instructions -> practice -> test -> finished ->
\* instructions only; the test is left with the sequence exhausted, and the
\* finished stage by the restart.
C6_StageOrder ==
    [][ stage' # stage =>
          \/ stage = "instructions" /\ stage' = "practice"
          \/ stage = "practice" /\ stage' = "test"
          \/ stage = "test" /\ stage' = "finished" /\ current_idx' = Len(test_trials)
          \/ stage = "finished" /\ stage' = "instructions" /\ Restart ]_vars

\* a second session is under way: the listener of an earlier one is attached
C6_Witness == stage = "practice" /\ page = "practice" /\ stroop_setup

\* C7: the restart is offered in the finished stage only, and it leaves a
\* fresh session: instructions, no record, index 0, no timer, new sequences.
C7_Restart ==
    /\ [](page = "results" => stage = "finished")
    /\ [][ (Restart \/ (stage # "instructions" /\ stage' = "instructions")) =>
             /\ stage = "finished"
             /\ SessionInit(stage', practice_trials', test_trials', current_idx',
                            results', start_time')
             /\ summary' = <<>> ]_vars

C7_Witness == stage = "instructions" /\ stroop_setup /\ results = <<>> /\ current_idx = 0

CongruentCount(seq) == Cardinality({ i \in 1..Len(seq) : seq[i].congruent })

\* C8: make_block(n, p) returns n trials, of which the integer nearest to n * p
\* (the even one on a tie) are congruent; make_block(20, 0.5) asks for 10.
C8_BlockCounts ==
    /\ round(20 * 1, 2) = 10
    /\ round(1 * 1, 2) = 0 /\ round(3 * 1, 2) = 2
    /\ block_call.done =>
         LET n    == block_call.n
             out  == block_call.out
             cong == CongruentCount(out)
             d    == 2 * PDen * cong - 2 * n * block_call.num
         IN  /\ Len(out) = n
             /\ Cardinality({ i \in 1..Len(out) : ~out[i].congruent }) = n - cong
             /\ -PDen <= d /\ d <= PDen
             /\ (d = PDen \/ d = -PDen) => cong % 2 = 0

C8_Witness ==
    /\ block_call.done
    /\ block_call.n = 2
    /\ 2 * block_call.num = PDen
    /\ ~block_call.out[1].congruent
    /\ CongruentCount(block_call.out) = 1

\* C9: every trial has word and ink in the palette and is congruent exactly
\* when they are the same colour.
WellFormed(trial) ==
    /\ trial.word \in Palette
    /\ trial.ink \in Palette
    /\ trial.congruent = (trial.word = trial.ink)

C9_TrialsWellFormed ==
    /\ \A i \in 1..Len(practice_trials) : WellFormed(practice_trials[i])
    /\ \A i \in 1..Len(test_trials) : WellFormed(test_trials[i])
    /\ \A trial \in AllTrials : WellFormed(trial)

C9_Witness ==
    /\ page = "test"
    /\ ~test_trials[current_idx + 1].congruent
    /\ \E i \in 1..Len(test_trials) : test_trials[i].congruent

TestIdx == { i \in 1..Len(results) : ~results[i].practice }
CongIdx == { i \in TestIdx : results[i].congruent }
IncongIdx == { i \in TestIdx : ~results[i].congruent }
RtValid(i) == results[i].rt_s # NoneTime /\ results[i].rt_s >= MIN_VALID_RT

RECURSIVE SumRt(_)
SumRt(I) ==
    IF I = {} THEN 0
    ELSE LET i == CHOOSE x \in I : TRUE IN results[i].rt_s + SumRt(I \ {i})

\* m is the mean reaction time over the records of I with a valid one
MeanOver(m, I) ==
    LET V == { i \in I : RtValid(i) }
    IN  V # {} => /\ m.kind = "num"
                  /\ m.num * Cardinality(V) = SumRt(V) * m.den
                  /\ m.den > 0

\* a is 100 * correct / all over the records of I
AccuracyOver(a, I) ==
    I # {} => /\ a.kind = "num"
              /\ a.num * Cardinality(I)
                   = 100 * Cardinality({ i \in I : results[i].correct = 1 }) * a.den
              /\ a.den > 0

\* C10: each mean reaction time is over the test records of its group with a
\* reaction time that is not null and >= MIN_VALID_RT; each accuracy is
\* 100 * correct / all over all the test records of its group.
C10_Summary ==
    summary # <<>> =>
        /\ MeanOver(summary[1].overall_rt, TestIdx)
        /\ MeanOver(summary[1].cong_rt, CongIdx)
        /\ MeanOver(summary[1].incong_rt, IncongIdx)
        /\ AccuracyOver(summary[1].overall_acc, TestIdx)
        /\ AccuracyOver(summary[1].cong_acc, CongIdx)
        /\ AccuracyOver(summary[1].incong_acc, IncongIdx)

C10_Witness ==
    /\ summary # <<>>
    /\ \E i, j \in TestIdx :
         /\ RtValid(i) /\ results[i].correct = 0
         /\ results[j].rt_s = 0 /\ results[j].correct = 1

\* m is not a number: NaN where the group has records but no valid reaction
\* time, None where the group has no record
UndefinedOver(m, I) ==
    { i \in I : RtValid(i) } = {} =>
        /\ m.kind \in {"nan", "None"}
        /\ I = {} <=> m.kind = "None"

\* C11: a group of test records that is empty or has no valid reaction time has
\* an undefined mean reaction time (NaN or None, shown as "nan" or "N/A"), never
\* zero or another number, and no mean is a fraction with denominator zero.
C11_UndefinedMean ==
    summary # <<>> =>
        /\ UndefinedOver(summary[1].overall_rt, TestIdx)
        /\ UndefinedOver(summary[1].cong_rt, CongIdx)
        /\ UndefinedOver(summary[1].incong_rt, IncongIdx)
        /\ { i \in TestIdx : RtValid(i) } = {}
             => summary[1].overall_rt_text.kind \in {"nan", "N/A"}
        /\ \A f \in {"overall_rt", "cong_rt", "incong_rt", "stroop_effect"} :
             summary[1][f].kind = "num" => summary[1][f].den > 0

C11_Witness ==
    /\ summary # <<>>
    /\ { i \in CongIdx : RtValid(i) } = {} /\ CongIdx # {}
    /\ summary[1].cong_rt = NaN
    /\ summary[1].incong_rt.kind = "num"

\* a step that answers the trial shown
Answered ==
    /\ page \in {"practice", "test"}
    /\ start_time # NoneTime
    /\ current_idx' # current_idx \/ stage' # stage

IsNumber(m, n) == m.kind = "num" /\ m.den > 0 /\ m.num = n * m.den

\* four test records: congruent answered after 0.5 s and 0.7 s, incongruent
\* after 0.9 s and 1.1 s
ExampleRecords ==
    LET cong   == [word |-> RED, ink |-> RED, congruent |-> TRUE]
        incong == [word |-> RED, ink |-> GREEN, congruent |-> FALSE]
        r1 == record_response(<<>>, cong, "R", 5, FALSE)
        r2 == record_response(r1, incong, "G", 9, FALSE)
        r3 == record_response(r2, cong, "R", 7, FALSE)
    IN  record_response(r3, incong, "G", 11, FALSE)

\* C13: the interference score is the incongruent mean reaction time minus the
\* congruent one when both are numbers (means 0.6 s and 1.0 s give 0.4 s), and
\* it is not a number when either mean is undefined.
C13_Interference ==
    /\ LET s == summarize(ExampleRecords)
       IN  /\ IsNumber(s.cong_rt, 6)
           /\ IsNumber(s.incong_rt, 10)
           /\ IsNumber(s.stroop_effect, 4)
    /\ summarize(SubSeq(ExampleRecords, 1, 1)).stroop_effect.kind \in {"nan", "None"}
    /\ summary # <<>> =>
         LET c == summary[1].cong_rt
             i == summary[1].incong_rt
             e == summary[1].stroop_effect
         IN  /\ (c.kind = "num" /\ i.kind = "num") =>
                  /\ e.kind = "num" /\ e.den > 0
                  /\ e.num * c.den * i.den = (i.num * c.den - c.num * i.den) * e.den
             /\ (c.kind # "num" \/ i.kind # "num") => e.kind \in {"nan", "None"}

C13_Witness ==
    /\ summary # <<>>
    /\ summary[1].cong_rt.kind = "num"
    /\ summary[1].incong_rt.kind = "num"
    /\ summary[1].stroop_effect.kind = "num"
    /\ summary[1].stroop_effect.num < 0

\* C14: the practice and the test sequence are made once per session: apart
\* from the restart, no step (rerun, stage change, response, key press, tick)
\* changes either of them.
C14_TrialsFixed ==
    [][ RestartStep \/ UNCHANGED <<practice_trials, test_trials>> ]_vars

C14_Witness ==
    /\ page = "results"
    /\ Len(practice_trials) = PRACTICE_TRIALS
    /\ Len(test_trials) = TRIALS_TOTAL
    /\ \A k \in 1..TRIALS_TOTAL : results[PRACTICE_TRIALS + k].word_text = test_trials[k].word
    /\ ~test_trials[1].congruent

\* C15: a response given exactly MAX_RT after the stimulus loses to the
\* deadline: the record appended is a timeout, with no chosen colour, no
\* reaction time, incorrect.
C15_DeadlineWins ==
    [][ (start_time # NoneTime /\ Elapsed = MAX_RT /\ Appended)
            => /\ LastRecord.response_key = NoKey
               /\ LastRecord.rt_s = NoneTime
               /\ LastRecord.correct = 0 ]_vars

\* C16: a key press is recorded for one trial only: the step that records a
\* keyboard response leaves no stored key behind for the listener of the next
\* trial to read.
C16_KeyRecordedOnce ==
    [][ KeyboardResponse => stroop_key' = NoKey ]_vars

\* every list of records the first k practice trials can leave behind: any
\* button, any elapsed time of the clock readings
RECURSIVE PracticeHistories(_)
PracticeHistories(k) ==
    IF k = 0 THEN { <<>> }
    ELSE { record_response(r, practice_trials[k], c[1],
                           IF t > MAX_RT THEN NoneTime ELSE t, TRUE) :
             r \in PracticeHistories(k - 1), c \in Palette, t \in ClockSamples }

\* the summary and the exported rows, the trial_index column left out
WithoutIndex(s) ==
    [s EXCEPT !.rows = [i \in DOMAIN @ |-> [@[i] EXCEPT !.row.trial_index = 0]]]

\* C17: the summary and the exported rows depend on the test records only:
\* with any other responses to the practice trials and the same test records,
\* the results page shows the same metrics and the same rows, trial_index apart.
C17_PracticeIgnored ==
    summary # <<>> =>
        \A other \in PracticeHistories(PracticeCount) :
            WithoutIndex(summarize(other \o TestRecords)) = WithoutIndex(summary[1])

C17_Witness ==
    /\ summary # <<>>
    /\ PracticeCount = PRACTICE_TRIALS
    /\ \A i \in 1..PracticeCount : results[i].correct = 0 /\ results[i].rt_s = MAX_RT
    /\ \A i \in TestIdx : results[i].correct = 1 /\ results[i].rt_s = MIN_VALID_RT
    /\ IsNumber(summary[1].overall_acc, 100)
    /\ summary[1].overall_rt.num = MIN_VALID_RT * summary[1].overall_rt.den

\* C18: the timer belongs to the trial shown.  While a stimulus is on the page
\* start_time is set, so every elapsed time is computed from a timer; a step
\* that advances the trial or changes the stage leaves the timer cleared or
\* started at that very step for the trial it displays; and a step that stays
\* on the same trial never restarts a timer that is set.
C18_TimerOfTrial ==
    /\ [](/\ page \in {"practice", "test"} => (start_time # NoneTime /\ Elapsed >= 0)
          /\ start_time # NoneTime => (page = stage /\ page \in {"practice", "test"}))
    /\ [][ /\ (current_idx' # current_idx \/ stage' # stage) =>
               \/ start_time' = NoneTime
               \/ page' \in {"practice", "test"} /\ now' - start_time' = 0
           /\ (Appended /\ ~RestartStep) =>
               /\ start_time # NoneTime
               /\ LastRecord.rt_s \in {Elapsed, NoneTime}
           /\ (UNCHANGED <<stage, current_idx>> /\ start_time # NoneTime) =>
               /\ start_time' = start_time
               /\ now' >= now ]_vars

C18_Witness ==
    /\ stage = "test" /\ page = "test"
    /\ Len(TestRecords) = 1
    /\ TestRecords[1].rt_s = MAX_RT
    /\ start_time # NoneTime
    /\ Elapsed = MIN_VALID_RT

\* C19: trial_index numbers the records in the order they were appended,
\* practice records included: the i-th record has trial_index i, so the first
\* test record has trial_index PRACTICE_TRIALS + 1.
C19_TrialIndex ==
    /\ \A i \in 1..Len(results) : results[i].trial_index = i
    /\ TestRecords # <<>> => TestRecords[1].trial_index = PRACTICE_TRIALS + 1

C19_Witness ==
    /\ page = "results"
    /\ Len(results) = PRACTICE_TRIALS + TRIALS_TOTAL
    /\ TestRecords[1].trial_index = PRACTICE_TRIALS + 1
    /\ results[Len(results)].trial_index = PRACTICE_TRIALS + TRIALS_TOTAL
    /\ results[1].practice /\ results[1].trial_index = 1

====
